---- MODULE Spec2Model ----
(***************************************************************************)
(* A model of the RustECS runtime: the World (src/src/world.rs), its       *)
(* component columns (src/src/storage.rs), the query matcher               *)
(* (src/src/query.rs) and the system controller with its fork/join tick    *)
(* (src/src/system.rs), driven by a caller as in src/src/main.rs.          *)
(*                                                                         *)
(* Option<T> is a sequence of length at most one: None is <<>>, Some(c) is *)
(* <<c>>.  Vec<T> is a sequence; the Rust index k is the TLA+ index k+1.   *)
(* A boxed component is the record [tid, val]: the concrete type's key and *)
(* its payload.  A panic! ends the thread it happens on.                    *)
(***************************************************************************)
EXTENDS Naturals, Sequences, FiniteSets, TLC

VARIABLES
    storage,            \* World.storage: Vec<ComponentStorage>
    entity_counter,     \* World.entity_counter
    systems_controller, \* World.systems_controller is Some (TRUE) or None
    systems,            \* SystemController.systems, as the systems' type keys
    mainpc,             \* the caller's thread: "caller", "tick", "unwinding", "panicked"
    task,               \* the tick's scoped threads, one per registered system
    lock,               \* the tick's Mutex: 0 when free, else the holding task
    poisoned,           \* the tick's Mutex was poisoned by a panicking holder
    last,               \* the call that ended last: its name, arguments, outcome
    handles,            \* the handles create_entity has returned, in call order
    given,              \* the <<type key, entity>> pairs a value was attached to
    serial,             \* the tick's systems so far, run one at a time: the
                        \* World they lead to, as a Tick record
    bench               \* main's benchmark loop: its counter i and what a round creates

vars == <<storage, entity_counter, systems_controller, systems, mainpc, task,
          lock, poisoned, last, handles, given, serial, bench>>

world_vars == <<storage, entity_counter, systems_controller, systems>>

----------------------------------------------------------------------------
(* Bounds of the model *)

MaxEntities == 2

MaxValue == 2

MaxCalls == 1

MaxComponents == 2

MaxKeys == 2

\* The most rounds of main's benchmark loop, and the most entities a round creates
MaxRounds == 3

MaxBatch == 2

----------------------------------------------------------------------------
(* Type keys, component values *)

Position == "Position"

SomeRandomComponent == "SomeRandomComponent"

UnitType == "()"

ComponentTypes == {Position, SomeRandomComponent}

SystemSomeRandomSystem == "SystemSomeRandomSystem"

SystemCaller == "SystemCaller"

SystemTypes == {SystemSomeRandomSystem, SystemCaller}

\* Further system types, registered and removed but never run
SystemThird == "SystemThird"

SystemFourth == "SystemFourth"

RegistryTypes == SystemTypes \cup {SystemThird, SystemFourth}

None == <<>>

Some(c) == <<c>>

PositionValues == {[x |-> 1, y |-> 1]}

SomeRandomComponentValues == {[some_value |-> 0], [some_value |-> 1]}

Payloads(T) == IF T = Position THEN PositionValues ELSE SomeRandomComponentValues

Box(T, v) == [tid |-> T, val |-> v]

Entities == 0 .. MaxEntities

NoPanic == "none"

StorageMissing == "Error: Storage does not exist"

StorageExists == "Error: Storage already exists"

SystemExists == "System already exists"

SystemMissing == "System does not exist"

TypeMismatch == "Component type mismatch"

IndexOutOfBounds == "index out of bounds"

----------------------------------------------------------------------------
(* storage.rs: ComponentStorage *)

ComponentStorage_new == [components |-> <<>>, type_id |-> UnitType]

init(s) == [s EXCEPT !.components = Append(@, None)]

set_type_id(s, T) == [s EXCEPT !.type_id = T]

check_type_id(s, T) == s.type_id = T

InRange(s, index) == index < Len(s.components)

\* ComponentStorage::get and get_mut: [panic, out]
storage_get(s, T, index) ==
    IF ~InRange(s, index)
    THEN [panic |-> IndexOutOfBounds, out |-> None]
    ELSE LET slot == s.components[index + 1] IN
         IF slot # None
         THEN IF slot[1].tid = T
              THEN [panic |-> NoPanic, out |-> Some(slot[1])]
              ELSE [panic |-> TypeMismatch, out |-> None]
         ELSE [panic |-> NoPanic, out |-> None]

\* Mutant: an index past the end is ignored
storage_set_in_range_only(s, index, c) ==
    IF ~InRange(s, index)
    THEN [panic |-> NoPanic, s |-> s]
    ELSE [panic |-> NoPanic, s |-> [s EXCEPT !.components[index + 1] = Some(c)]]

\* ComponentStorage::set: [panic, s]
storage_set(s, index, c) ==
    IF ~InRange(s, index)
    THEN [panic |-> IndexOutOfBounds, s |-> s]
    ELSE [panic |-> NoPanic, s |-> [s EXCEPT !.components[index + 1] = Some(c)]]

\* ComponentStorage::has: [panic, out]
storage_has(s, index, component) ==
    IF ~InRange(s, index)
    THEN [panic |-> IndexOutOfBounds, out |-> FALSE]
    ELSE LET slot == s.components[index + 1] IN
         [panic |-> NoPanic, out |-> slot # None /\ slot[1].tid = component]

----------------------------------------------------------------------------
(* world.rs: World, as operators on (storage, entity_counter) *)

\* The column a `for storage in &self.storage` scan stops at: the first whose
\* type key is T (0 when the scan ends without a match).
RECURSIVE FirstStorage(_, _, _)
FirstStorage(st, i, T) ==
    IF i > Len(st) THEN 0
    ELSE IF check_type_id(st[i], T) THEN i
    ELSE FirstStorage(st, i + 1, T)

check_storage_exists(st, T) == FirstStorage(st, 1, T) # 0

\* Mutant: the new entity gets no slot in the existing columns
world_create_entity_no_init(st, n) ==
    [st |-> st, n |-> n + 1, out |-> n]

\* Mutant: the handle returned is the counter after the increment
world_create_entity_post_increment(st, n) ==
    [st  |-> [i \in 1 .. Len(st) |-> init(st[i])],
     n   |-> n + 1,
     out |-> n + 1]

\* World::create_entity: [st, n, out]
world_create_entity(st, n) ==
    [st  |-> [i \in 1 .. Len(st) |-> init(st[i])],
     n   |-> n + 1,
     out |-> n]

RECURSIVE InitTimes(_, _)
InitTimes(s, k) == IF k = 0 THEN s ELSE InitTimes(init(s), k - 1)

\* Mutant: the column is registered without the check for an existing one
world_init_storage_unchecked(st, n, T) ==
    [panic |-> NoPanic,
     st |-> Append(st, InitTimes(set_type_id(ComponentStorage_new, T), n))]

\* World::init_storage: [panic, st]
world_init_storage(st, n, T) ==
    IF check_storage_exists(st, T)
    THEN [panic |-> StorageExists, st |-> st]
    ELSE [panic |-> NoPanic,
          st |-> Append(st, InitTimes(set_type_id(ComponentStorage_new, T), n))]

\* Mutant: the value goes to the first column, whatever its type key
world_set_component_first_column(st, T, entity, c) ==
    IF ~check_storage_exists(st, T)
    THEN [panic |-> StorageMissing, st |-> st]
    ELSE LET r == storage_set(st[1], entity, c)
         IN  [panic |-> r.panic, st |-> [st EXCEPT ![1] = r.s]]

\* Mutant: the value goes to the column registered last
world_set_component_last_column(st, T, entity, c) ==
    IF ~check_storage_exists(st, T)
    THEN [panic |-> StorageMissing, st |-> st]
    ELSE LET r == storage_set(st[Len(st)], entity, c)
         IN  [panic |-> r.panic, st |-> [st EXCEPT ![Len(st)] = r.s]]

\* World::set_component: [panic, st]
world_set_component(st, T, entity, c) ==
    IF ~check_storage_exists(st, T)
    THEN [panic |-> StorageMissing, st |-> st]
    ELSE LET i == FirstStorage(st, 1, T)
             r == storage_set(st[i], entity, c)
         IN  [panic |-> r.panic, st |-> [st EXCEPT ![i] = r.s]]

\* Mutant: a column created on the way holds the value for every entity
world_add_component_fill(st, n, T, entity, c) ==
    IF check_storage_exists(st, T)
    THEN world_set_component(st, T, entity, c)
    ELSE LET r == world_init_storage(st, n, T) IN
         IF r.panic # NoPanic \/ entity >= n THEN r
         ELSE [panic |-> NoPanic,
               st |-> [r.st EXCEPT ![Len(r.st)].components =
                                       [k \in 1 .. n |-> Some(c)]]]

\* World::add_component: [panic, st]
world_add_component(st, n, T, entity, c) ==
    IF check_storage_exists(st, T)
    THEN world_set_component(st, T, entity, c)
    ELSE LET r == world_init_storage(st, n, T) IN
         IF r.panic # NoPanic THEN r
         ELSE world_set_component(r.st, T, entity, c)

\* Mutant: a missing column reads as an absent value
world_get_component_absent_if_missing(st, T, entity) ==
    IF ~check_storage_exists(st, T)
    THEN [panic |-> NoPanic, out |-> None]
    ELSE storage_get(st[FirstStorage(st, 1, T)], T, entity)

\* World::get_component and get_component_mut: [panic, out]
world_get_component(st, T, entity) ==
    IF ~check_storage_exists(st, T)
    THEN [panic |-> StorageMissing, out |-> None]
    ELSE storage_get(st[FirstStorage(st, 1, T)], T, entity)

\* World::has_component, from column i on: [panic, out].  (world.rs calls
\* the column's test has_component; storage.rs defines it as has.)
RECURSIVE has_component_from(_, _, _, _)
has_component_from(st, i, entity, component_id) ==
    IF i > Len(st) THEN [panic |-> NoPanic, out |-> FALSE]
    ELSE LET r == storage_has(st[i], entity, component_id) IN
         IF r.panic # NoPanic \/ r.out THEN r
         ELSE has_component_from(st, i + 1, entity, component_id)

\* Mutant: the type is looked up first, as get_component does
has_component_checked(st, entity, component_id) ==
    IF \A i \in 1 .. Len(st) : st[i].type_id # component_id
    THEN [panic |-> StorageMissing, out |-> FALSE]
    ELSE has_component_from(st, 1, entity, component_id)

has_component(st, entity, component_id) ==
    has_component_from(st, 1, entity, component_id)

get_entity_count(n) == n

\* Mutant: the loop ends after the first component
add_components_first_only(st, n, T, entity, components) ==
    IF components = <<>> THEN [panic |-> NoPanic, st |-> st]
    ELSE world_add_component(st, n, T, entity, Head(components))

\* World::create_entity_with_components, the loop over the given components
RECURSIVE add_components(_, _, _, _, _)
add_components(st, n, T, entity, components) ==
    IF components = <<>> THEN [panic |-> NoPanic, st |-> st]
    ELSE LET r == world_add_component(st, n, T, entity, Head(components)) IN
         IF r.panic # NoPanic THEN r
         ELSE add_components(r.st, n, T, entity, Tail(components))

\* World::create_entity_with_components: [panic, st, n, out]
world_create_entity_with_components(st, n, T, components) ==
    LET e == world_create_entity(st, n)
        r == add_components(e.st, e.n, T, e.out, components)
    IN  [panic |-> r.panic, st |-> r.st, n |-> e.n, out |-> e.out]

----------------------------------------------------------------------------
(* query.rs: Query *)

Query_new == [components |-> <<>>, entities |-> <<>>]

Query_add(q, T) == [q EXCEPT !.components = Append(@, T)]

\* Mutant: the loop over the keys ends after the first key
has_components_first_key(q, k, st, entity) ==
    IF k > Len(q.components) THEN [panic |-> NoPanic, out |-> TRUE]
    ELSE has_component(st, entity, q.components[k])

\* Mutant: one key the entity holds is enough
RECURSIVE has_components_any(_, _, _, _)
has_components_any(q, k, st, entity) ==
    IF k > Len(q.components) THEN [panic |-> NoPanic, out |-> k = 1]
    ELSE LET r == has_component(st, entity, q.components[k]) IN
         IF r.panic # NoPanic \/ r.out THEN r
         ELSE IF k = Len(q.components) THEN r
         ELSE has_components_any(q, k + 1, st, entity)

\* The inner loop of Query::get over self.components, from the k-th key on
RECURSIVE has_components(_, _, _, _)
has_components(q, k, st, entity) ==
    IF k > Len(q.components) THEN [panic |-> NoPanic, out |-> TRUE]
    ELSE LET r == has_component(st, entity, q.components[k]) IN
         IF r.panic # NoPanic THEN r
         ELSE IF ~r.out THEN [panic |-> NoPanic, out |-> FALSE]
         ELSE has_components(q, k + 1, st, entity)

\* The outer loop of Query::get, from `entity` on, with `entities` collected
RECURSIVE Query_get_from(_, _, _, _, _)
Query_get_from(q, st, n, entity, entities) ==
    IF entity >= get_entity_count(n) THEN [panic |-> NoPanic, out |-> entities]
    ELSE LET r == has_components(q, 1, st, entity) IN
         IF r.panic # NoPanic THEN [panic |-> r.panic, out |-> <<>>]
         ELSE Query_get_from(q, st, n, entity + 1,
                             IF r.out THEN Append(entities, entity) ELSE entities)

\* Query::get: [panic, out]
Query_get(q, st, n) == Query_get_from(q, st, n, 0, <<>>)

----------------------------------------------------------------------------
(* system.rs: SystemController *)

has_system(sys, S) == \E i \in 1 .. Len(sys) : sys[i] = S

\* Mutant: the entry that goes is the first one, whatever its type key
retain_not_first(sys, S) == Tail(sys)

\* Vec::retain of the systems whose type key is not S
RECURSIVE retain_not(_, _)
retain_not(sys, S) ==
    IF sys = <<>> THEN <<>>
    ELSE IF Head(sys) # S THEN <<Head(sys)>> \o retain_not(Tail(sys), S)
    ELSE retain_not(Tail(sys), S)

\* Mutant: the system is pushed before the duplicate check
controller_add_system_push_first(sys, S) ==
    IF has_system(sys, S)
    THEN [panic |-> SystemExists, sys |-> Append(sys, S)]
    ELSE [panic |-> NoPanic, sys |-> Append(sys, S)]

\* SystemController::add_system: [panic, sys]
controller_add_system(sys, S) ==
    IF has_system(sys, S)
    THEN [panic |-> SystemExists, sys |-> sys]
    ELSE [panic |-> NoPanic, sys |-> Append(sys, S)]

\* SystemController::remove_system: [panic, sys]
controller_remove_system(sys, S) ==
    IF ~has_system(sys, S)
    THEN [panic |-> SystemMissing, sys |-> sys]
    ELSE [panic |-> NoPanic, sys |-> retain_not(sys, S)]

----------------------------------------------------------------------------
(* The state machine *)

UnwrapNone == "called Option::unwrap() on a None value"

JoinError == "called Result::unwrap() on an Err value: Any"

PoisonError == "called Result::unwrap() on an Err value: PoisonError"

\* The outcome of a call that has not ended yet
Pending == "pending"

NoCall == [op |-> "none", panic |-> NoPanic]

NewTask == [pc |-> "unspawned", todo |-> <<>>, calls |-> 0]

\* No tick is under way: there is nothing to run one at a time
NoTick == <<>>

\* The caller is not main's benchmark loop
NoBenchmark == <<>>

\* Mutant: y is left out of the sum
added_value_x_only(position) == position.x

\* (position.x + position.y) as u32
added_value(position) == position.x + position.y

\* The query some_random_system builds (main.rs 29-31)
SystemQuery == Query_add(Query_add(Query_new, Position), SomeRandomComponent)

\* One iteration of the loop of some_random_system (main.rs 35-43): [panic, st]
system_iteration(st, entity) ==
    LET p == world_get_component(st, Position, entity) IN
    IF p.panic # NoPanic THEN [panic |-> p.panic, st |-> st]
    ELSE IF p.out = None THEN [panic |-> UnwrapNone, st |-> st]
    ELSE LET c == world_get_component(st, SomeRandomComponent, entity) IN
         IF c.panic # NoPanic THEN [panic |-> c.panic, st |-> st]
         ELSE IF c.out = None THEN [panic |-> UnwrapNone, st |-> st]
         ELSE LET i == FirstStorage(st, 1, SomeRandomComponent)
                  v == c.out[1].val.some_value + added_value(p.out[1].val)
              IN  [panic |-> NoPanic,
                   st |-> [st EXCEPT ![i].components[entity + 1] =
                             Some(Box(SomeRandomComponent, [some_value |-> v]))]]

\* One run of some_random_system over the entities its query returned
RECURSIVE some_random_system_loop(_, _)
some_random_system_loop(st, entities) ==
    IF entities = <<>> THEN [panic |-> NoPanic, st |-> st]
    ELSE LET r == system_iteration(st, Head(entities)) IN
         IF r.panic # NoPanic THEN r
         ELSE some_random_system_loop(r.st, Tail(entities))

\* some_random_system, run on its own from query to return: [panic, st]
some_random_system(st, n) ==
    LET q == Query_get(SystemQuery, st, n) IN
    IF q.panic # NoPanic THEN [panic |-> q.panic, st |-> st]
    ELSE some_random_system_loop(st, q.out)

\* The columns and the counter of a World, as the operators above take them
WorldOf(st, n) == [st |-> st, n |-> n]

\* The record of the systems that have returned in this tick: a World, and
\* whether some_random_system has still to be run on it
Tick(st, n, pending) == [st |-> st, n |-> n, pending |-> pending]

Init ==
    /\ storage = <<>>
    /\ entity_counter = 0
    /\ systems_controller = TRUE
    /\ systems = <<>>
    /\ mainpc = "caller"
    /\ task = <<>>
    /\ lock = 0
    /\ poisoned = FALSE
    /\ last = NoCall
    /\ handles = <<>>
    /\ given = {}
    /\ serial = NoTick
    /\ bench = NoBenchmark

\* Who is in a position to call the World: the caller between ticks (0), or
\* a task whose system drives the World through the locked handle.
Calling(a) ==
    IF a = 0 THEN mainpc = "caller"
    ELSE /\ a \in DOMAIN task
         /\ task[a].pc = "body"
         /\ systems[a] = SystemCaller
         /\ task[a].calls < MaxCalls

\* It makes its next call once it is done with the outcome of the last one.
MayCall(a) == Calling(a) /\ last = NoCall

\* The World the systems that have returned lead to when they are run one at
\* a time, in the order they took the lock, from the World the tick started
\* with
Serial ==
    IF serial.pending
    THEN WorldOf(some_random_system(serial.st, serial.n).st, serial.n)
    ELSE WorldOf(serial.st, serial.n)

Callers == {0} \cup DOMAIN task

\* The end of a call by `a`: the call is recorded; a panic ends the thread of a,
\* and a task that panics drops its guard while unwinding, poisoning the Mutex.
Return(a, call) ==
    /\ last' = call
    /\ IF a = 0
       THEN /\ mainpc' = IF call.panic # NoPanic THEN "panicked" ELSE mainpc
            /\ UNCHANGED <<task, lock, poisoned>>
       ELSE /\ task' = [task EXCEPT ![a].calls = @ + 1,
                                    ![a].pc = IF call.panic # NoPanic
                                              THEN "panicked" ELSE @]
            /\ lock' = IF call.panic # NoPanic THEN 0 ELSE lock
            /\ poisoned' = (poisoned \/ call.panic # NoPanic)
            /\ UNCHANGED mainpc

\* The largest value some_random_system adds to a component in one tick
MaxAdded ==
    CHOOSE m \in {added_value(p) : p \in PositionValues} :
        \A p \in PositionValues : added_value(p) <= m

\* A SomeRandomComponent value that leaves room for one tick's addition
\* (the model's cap on the u32 counters)
HasRoom(c) ==
    c.tid = SomeRandomComponent => c.val.some_value + MaxAdded <= MaxValue

\* Every stored value leaves room for one tick's addition.
RoomToAdd ==
    \A i \in 1 .. Len(storage) : \A k \in 1 .. Len(storage[i].components) :
        LET slot == storage[i].components[k] IN
        slot # None => HasRoom(slot[1])

\* What the column for T holds at `entity` (None when there is no such slot)
Slot(st, T, entity) ==
    IF check_storage_exists(st, T) /\ InRange(st[FirstStorage(st, 1, T)], entity)
    THEN st[FirstStorage(st, 1, T)].components[entity + 1]
    ELSE None

ComponentLists(T) ==
    UNION {[1 .. k -> Payloads(T)] : k \in 0 .. MaxComponents}

KeyLists == UNION {[1 .. k -> ComponentTypes] : k \in 0 .. MaxKeys}

create_entity ==
    \E a \in Callers :
        /\ MayCall(a)
        /\ entity_counter < MaxEntities
        /\ LET r == world_create_entity(storage, entity_counter) IN
           /\ storage' = r.st
           /\ entity_counter' = r.n
           /\ handles' = Append(handles, r.out)
           /\ Return(a, [op |-> "create_entity", panic |-> NoPanic, out |-> r.out])
        /\ serial' = IF a = 0 THEN serial
                      ELSE LET w == world_create_entity(Serial.st, Serial.n)
                           IN  Tick(w.st, w.n, FALSE)
        /\ UNCHANGED <<systems_controller, systems, given, bench>>

create_entity_with_components ==
    \E a \in Callers, T \in ComponentTypes :
      \E vs \in ComponentLists(T) :
        /\ MayCall(a)
        /\ entity_counter < MaxEntities
        /\ a # 0 => \A k \in 1 .. Len(vs) : HasRoom(Box(T, vs[k]))
        /\ LET cs == [k \in 1 .. Len(vs) |-> Box(T, vs[k])]
               r == world_create_entity_with_components(storage, entity_counter, T, cs)
           IN
           /\ storage' = r.st
           /\ entity_counter' = r.n
           /\ handles' = Append(handles, r.out)
           /\ Return(a, [op |-> "create_entity_with_components", T |-> T,
                         components |-> cs, panic |-> r.panic, out |-> r.out])
           /\ given' = IF cs # <<>> /\ r.panic = NoPanic
                       THEN given \cup {<<T, r.out>>} ELSE given
           /\ serial' = IF a = 0 THEN serial
                         ELSE LET w == world_create_entity_with_components(
                                           Serial.st, Serial.n, T, cs)
                              IN  Tick(w.st, w.n, FALSE)
        /\ UNCHANGED <<systems_controller, systems, bench>>

add_component ==
    \E a \in Callers, T \in ComponentTypes, entity \in Entities :
      \E v \in Payloads(T) :
        /\ MayCall(a)
        /\ a # 0 => HasRoom(Box(T, v))
        /\ LET r == world_add_component(storage, entity_counter, T, entity, Box(T, v)) IN
           /\ storage' = r.st
           /\ Return(a, [op |-> "add_component", T |-> T, entity |-> entity,
                         component |-> Box(T, v), panic |-> r.panic,
                         lazy |-> ~check_storage_exists(storage, T),
                         old |-> Slot(storage, T, entity)])
           /\ given' = IF r.panic = NoPanic
                       THEN given \cup {<<T, entity>>} ELSE given
        /\ serial' = IF a = 0 THEN serial
                      ELSE Tick(world_add_component(Serial.st, Serial.n, T, entity,
                                                    Box(T, v)).st, Serial.n, FALSE)
        /\ UNCHANGED <<entity_counter, systems_controller, systems, handles, bench>>

set_component ==
    \E a \in Callers, T \in ComponentTypes, entity \in Entities :
      \E v \in Payloads(T) :
        /\ MayCall(a)
        /\ a # 0 => HasRoom(Box(T, v))
        /\ LET r == world_set_component(storage, T, entity, Box(T, v)) IN
           /\ storage' = r.st
           /\ Return(a, [op |-> "set_component", T |-> T, entity |-> entity,
                         component |-> Box(T, v), panic |-> r.panic,
                         old |-> Slot(storage, T, entity)])
           /\ given' = IF r.panic = NoPanic
                       THEN given \cup {<<T, entity>>} ELSE given
        /\ serial' = IF a = 0 THEN serial
                      ELSE Tick(world_set_component(Serial.st, T, entity,
                                                    Box(T, v)).st, Serial.n, FALSE)
        /\ UNCHANGED <<entity_counter, systems_controller, systems, handles, bench>>

get_component ==
    \E a \in Callers, T \in ComponentTypes, entity \in Entities :
        /\ MayCall(a)
        /\ LET r == world_get_component(storage, T, entity) IN
           Return(a, [op |-> "get_component", T |-> T, entity |-> entity,
                      panic |-> r.panic, out |-> r.out])
        /\ UNCHANGED <<world_vars, handles, given, serial, bench>>

get_component_mut ==
    \E a \in Callers, T \in ComponentTypes, entity \in Entities :
        /\ MayCall(a)
        /\ LET r == world_get_component(storage, T, entity) IN
           Return(a, [op |-> "get_component_mut", T |-> T, entity |-> entity,
                      panic |-> r.panic, out |-> r.out])
        /\ UNCHANGED <<world_vars, handles, given, serial, bench>>

init_storage ==
    \E a \in Callers, T \in ComponentTypes :
        /\ MayCall(a)
        /\ LET r == world_init_storage(storage, entity_counter, T) IN
           /\ storage' = r.st
           /\ Return(a, [op |-> "init_storage", T |-> T, panic |-> r.panic])
        /\ serial' = IF a = 0 THEN serial
                      ELSE Tick(world_init_storage(Serial.st, Serial.n, T).st,
                                Serial.n, FALSE)
        /\ UNCHANGED <<entity_counter, systems_controller, systems, handles, given,
                       bench>>

query_get ==
    \E a \in Callers, keys \in KeyLists :
        /\ MayCall(a)
        /\ LET q == [Query_new EXCEPT !.components = keys]
               r == Query_get(q, storage, entity_counter)
           IN  Return(a, [op |-> "query_get", components |-> keys,
                          panic |-> r.panic, out |-> r.out])
        /\ UNCHANGED <<world_vars, handles, given, serial, bench>>

\* World::add_system, for a system of one of the types Types
add_system_of(Types) ==
    \E a \in Callers, S \in Types :
        /\ MayCall(a)
        /\ IF ~systems_controller
           THEN /\ Return(a, [op |-> "add_system", S |-> S, panic |-> UnwrapNone])
                /\ UNCHANGED systems
           ELSE LET r == controller_add_system(systems, S) IN
                /\ systems' = r.sys
                /\ Return(a, [op |-> "add_system", S |-> S, panic |-> r.panic])
        /\ UNCHANGED <<storage, entity_counter, systems_controller, handles, given, serial, bench>>

add_system == add_system_of(SystemTypes)

\* World::remove_system, for one of the types Types
remove_system_of(Types) ==
    \E a \in Callers, S \in Types :
        /\ MayCall(a)
        /\ IF ~systems_controller
           THEN /\ Return(a, [op |-> "remove_system", S |-> S, panic |-> UnwrapNone])
                /\ UNCHANGED systems
           ELSE LET r == controller_remove_system(systems, S) IN
                /\ systems' = r.sys
                /\ Return(a, [op |-> "remove_system", S |-> S, panic |-> r.panic])
        /\ UNCHANGED <<storage, entity_counter, systems_controller, handles, given, serial, bench>>

remove_system == remove_system_of(SystemTypes)

----------------------------------------------------------------------------
(* The tick: World::update, SystemController::update and the system tasks *)

\* Mutant: the controller is borrowed in place (as_mut), not taken out
take_as_mut(option) == option

\* Option::take (world.rs 199): the value is moved out and None is left
take(option) == FALSE

\* World::update: the controller is taken out of the World and
\* SystemController::update wraps the World in a fresh Arc<Mutex<..>>.
update ==
    \E a \in Callers :
        /\ MayCall(a)
        /\ IF ~systems_controller
           THEN /\ Return(a, [op |-> "update", panic |-> UnwrapNone])
                /\ UNCHANGED <<systems_controller, serial>>
           ELSE /\ RoomToAdd
                /\ systems_controller' = take(systems_controller)
                /\ mainpc' = "tick"
                /\ task' = [i \in 1 .. Len(systems) |-> NewTask]
                /\ lock' = 0
                /\ poisoned' = FALSE
                /\ last' = [op |-> "update", panic |-> Pending]
                /\ serial' = Tick(storage, entity_counter, FALSE)
        /\ UNCHANGED <<storage, entity_counter, systems, handles, given, bench>>

Unspawned == {i \in DOMAIN task : task[i].pc = "unspawned"}

\* Mutant: only the first handle is joined
Unjoined_first_handle == {i \in DOMAIN task : i = 1 /\ task[i].pc # "joined"}

Unjoined == {i \in DOMAIN task : task[i].pc # "joined"}

Lowest(S) == CHOOSE i \in S : \A j \in S : i <= j

\* scope.spawn for the next system of the registry
spawn ==
    /\ mainpc = "tick"
    /\ Unspawned # {}
    /\ task' = [task EXCEPT ![Lowest(Unspawned)].pc = "started"]
    /\ last' = [op |-> "spawn", panic |-> NoPanic]
    /\ UNCHANGED <<world_vars, mainpc, lock, poisoned, handles, given, serial, bench>>

\* Mutant: the result of the join is dropped, not unwrapped
handle_join_unwrap_ignored(pc) == NoPanic

\* handle.join().unwrap() on a thread that ended in state pc
handle_join_unwrap(pc) == IF pc = "panicked" THEN JoinError ELSE NoPanic

\* handle.join().unwrap() for the next handle: a task that panicked makes
\* the join an Err, and the unwrap panics inside the scope.
join ==
    /\ mainpc = "tick"
    /\ Unspawned = {}
    /\ Unjoined # {}
    /\ LET i == Lowest(Unjoined) IN
       /\ task[i].pc \in {"done", "panicked"}
       /\ last' = [op |-> "join", panic |-> handle_join_unwrap(task[i].pc)]
       /\ IF handle_join_unwrap(task[i].pc) = NoPanic
          THEN /\ task' = [task EXCEPT ![i].pc = "joined"]
               /\ UNCHANGED mainpc
          ELSE /\ mainpc' = "unwinding"
               /\ UNCHANGED task
    /\ UNCHANGED <<world_vars, lock, poisoned, handles, given, serial, bench>>

\* The scope ends with every handle joined: SystemController::update returns
\* and World::update puts the controller back.
update_return ==
    /\ mainpc = "tick"
    /\ Unspawned = {}
    /\ Unjoined = {}
    /\ systems_controller' = TRUE
    /\ mainpc' = "caller"
    /\ task' = <<>>
    /\ lock' = 0
    /\ poisoned' = FALSE
    /\ last' = [op |-> "update", panic |-> NoPanic]
    /\ serial' = NoTick
    /\ UNCHANGED <<storage, entity_counter, systems, handles, given, bench>>

\* The scope waits for its remaining threads, then the panic goes on: the
\* caller's thread ends inside World::update.
unwind ==
    /\ mainpc = "unwinding"
    /\ \A i \in DOMAIN task : task[i].pc \in {"done", "panicked", "joined"}
    /\ mainpc' = "panicked"
    /\ last' = [op |-> "update", panic |-> JoinError]
    /\ UNCHANGED <<world_vars, task, lock, poisoned, handles, given, serial, bench>>

\* Mutant: the guard is a temporary, dropped as soon as lock() has returned
MutexGuard_dropped(i) == 0

\* let mut world = world.lock().unwrap(): thread i holds the guard until the
\* binding goes out of scope, at the end of the system's update
MutexGuard(i) == i

\* Mutant: the guard is forgotten at the end of the update, the Mutex stays
\* locked
drop_guard_forgotten(holder) == holder

\* The guard goes out of scope at the end of the system's update and unlocks
\* the Mutex (main.rs 44, the end of some_random_system)
drop_guard(holder) == 0

\* Mutant: the lock is handed out while another thread holds the guard
LockFree_no_wait == TRUE

\* Mutex::lock returns only when no other thread holds the guard
LockFree == lock = 0

\* world.lock().unwrap(): the task blocks until the Mutex is free; a poisoned
\* Mutex makes the unwrap panic.  some_random_system resolves its query as
\* soon as it holds the guard.
task_lock ==
    \E i \in DOMAIN task :
        /\ task[i].pc = "started"
        /\ LockFree
        /\ IF poisoned
           THEN /\ task' = [task EXCEPT ![i].pc = "panicked"]
                /\ last' = [op |-> "task_lock", task |-> i, panic |-> PoisonError]
                /\ UNCHANGED <<lock, poisoned>>
           ELSE IF systems[i] = SystemSomeRandomSystem
           THEN LET r == Query_get(SystemQuery, storage, entity_counter) IN
                IF r.panic # NoPanic
                THEN /\ task' = [task EXCEPT ![i].pc = "panicked"]
                     /\ last' = [op |-> "task_lock", task |-> i, panic |-> r.panic]
                     /\ poisoned' = TRUE
                     /\ UNCHANGED lock
                ELSE /\ task' = [task EXCEPT ![i].pc = "body", ![i].todo = r.out]
                     /\ last' = [op |-> "task_lock", task |-> i, panic |-> NoPanic]
                     /\ lock' = MutexGuard(i)
                     /\ UNCHANGED poisoned
           ELSE /\ task' = [task EXCEPT ![i].pc = "body"]
                /\ last' = [op |-> "task_lock", task |-> i, panic |-> NoPanic]
                /\ lock' = MutexGuard(i)
                /\ UNCHANGED poisoned
        /\ UNCHANGED <<world_vars, mainpc, handles, given, serial, bench>>

system_step ==
    \E i \in DOMAIN task :
        /\ task[i].pc = "body"
        /\ systems[i] = SystemSomeRandomSystem
        /\ task[i].todo # <<>>
        /\ LET r == system_iteration(storage, Head(task[i].todo)) IN
           /\ storage' = r.st
           /\ last' = [op |-> "system_step", task |-> i,
                       entity |-> Head(task[i].todo), panic |-> r.panic]
           /\ IF r.panic # NoPanic
              THEN /\ task' = [task EXCEPT ![i].pc = "panicked"]
                   /\ lock' = 0
                   /\ poisoned' = TRUE
              ELSE /\ task' = [task EXCEPT ![i].todo = Tail(@)]
                   /\ UNCHANGED <<lock, poisoned>>
        /\ UNCHANGED <<entity_counter, systems_controller, systems, mainpc,
                       handles, given, serial, bench>>

\* The system's update returns: the guard is dropped and the thread ends.
task_finish ==
    \E i \in DOMAIN task :
        /\ task[i].pc = "body"
        /\ systems[i] = SystemSomeRandomSystem => task[i].todo = <<>>
        /\ task' = [task EXCEPT ![i].pc = "done"]
        /\ lock' = drop_guard(lock)
        /\ last' = [op |-> "task_finish", task |-> i, panic |-> NoPanic]
        /\ serial' = IF systems[i] = SystemSomeRandomSystem
                      THEN [serial EXCEPT !.pending = TRUE]
                      ELSE serial
        /\ UNCHANGED <<world_vars, mainpc, poisoned, handles, given, bench>>

\* The caller is done with the outcome of its last call (a returned
\* reference borrows the World until then) and goes on.
resume ==
    /\ \E a \in Callers : Calling(a)
    /\ last # NoCall
    /\ last' = NoCall
    /\ UNCHANGED <<world_vars, mainpc, task, lock, poisoned, handles, given, serial, bench>>

Next ==
    \/ resume
    \/ create_entity
    \/ create_entity_with_components
    \/ add_component
    \/ set_component
    \/ get_component
    \/ get_component_mut
    \/ init_storage
    \/ query_get
    \/ add_system
    \/ remove_system
    \/ update
    \/ spawn
    \/ join
    \/ update_return
    \/ unwind
    \/ task_lock
    \/ system_step
    \/ task_finish

Spec == Init /\ [][Next]_vars

\* The system registry on its own, with four system types: only add_system
\* and remove_system write SystemController.systems.
registry_add_system == add_system_of(RegistryTypes)

registry_remove_system == remove_system_of(RegistryTypes)

NextRegistry ==
    \/ resume
    \/ registry_add_system
    \/ registry_remove_system

SpecRegistry == Init /\ [][NextRegistry]_vars

----------------------------------------------------------------------------
(* main.rs: main and its benchmark loop.  A run creates bench.entities
   entities per round, each with a Position and a SomeRandomComponent of
   bench.some_value, and then ticks; bench.i counts the rounds done. *)

InitBenchmark ==
    /\ storage = <<>>
    /\ entity_counter = 0
    /\ systems_controller = TRUE
    /\ systems = <<>>
    /\ mainpc = "caller"
    /\ task = <<>>
    /\ lock = 0
    /\ poisoned = FALSE
    /\ last = NoCall
    /\ handles = <<>>
    /\ given = {}
    /\ serial = NoTick
    /\ bench \in {[i |-> 0, entities |-> k, some_value |-> c.some_value] :
                      k \in 1 .. MaxBatch, c \in SomeRandomComponentValues}

\* world.init_storage::<Position>(); world.init_storage::<SomeRandomComponent>()
main_init_storage ==
    /\ mainpc = "caller"
    /\ Len(storage) < Cardinality(ComponentTypes)
    /\ LET T == IF storage = <<>> THEN Position ELSE SomeRandomComponent
           r == world_init_storage(storage, entity_counter, T)
       IN  /\ storage' = r.st
           /\ last' = [op |-> "init_storage", T |-> T, panic |-> r.panic]
           /\ mainpc' = IF r.panic # NoPanic THEN "panicked" ELSE mainpc
    /\ UNCHANGED <<entity_counter, systems_controller, systems, task, lock,
                   poisoned, handles, given, serial, bench>>

\* world.add_system(SystemSomeRandomSystem), before the loop (main.rs 72)
main_add_system ==
    /\ mainpc = "caller"
    /\ Len(storage) = Cardinality(ComponentTypes)
    /\ bench.i = 0
    /\ systems = <<>>
    /\ LET r == controller_add_system(systems, SystemSomeRandomSystem) IN
       /\ systems' = r.sys
       /\ last' = [op |-> "add_system", S |-> SystemSomeRandomSystem,
                   panic |-> r.panic]
       /\ mainpc' = IF r.panic # NoPanic THEN "panicked" ELSE mainpc
    /\ UNCHANGED <<storage, entity_counter, systems_controller, task, lock,
                   poisoned, handles, given, serial, bench>>

\* One round of the loop of benchmark (main.rs 47-50): an entity is created
\* with a Position, and a SomeRandomComponent is added to it
benchmark_create ==
    \E p \in PositionValues :
        /\ mainpc = "caller"
        /\ systems # <<>>
        /\ bench.i < MaxRounds
        /\ entity_counter < (bench.i + 1) * bench.entities
        /\ LET e == world_create_entity_with_components(
                        storage, entity_counter, Position, <<Box(Position, p)>>)
               c == Box(SomeRandomComponent, [some_value |-> bench.some_value])
               r == world_add_component(e.st, e.n, SomeRandomComponent, e.out, c)
           IN  /\ e.panic = NoPanic
               /\ storage' = r.st
               /\ entity_counter' = e.n
               /\ handles' = Append(handles, e.out)
               /\ given' = given \cup {<<Position, e.out>>,
                                        <<SomeRandomComponent, e.out>>}
               /\ last' = [op |-> "add_component", T |-> SomeRandomComponent,
                           entity |-> e.out, component |-> c, panic |-> r.panic,
                           lazy |-> ~check_storage_exists(e.st, SomeRandomComponent),
                           old |-> Slot(e.st, SomeRandomComponent, e.out)]
               /\ mainpc' = IF r.panic # NoPanic THEN "panicked" ELSE mainpc
        /\ UNCHANGED <<systems_controller, systems, task, lock, poisoned, serial,
                       bench>>

\* world.update() at the end of benchmark, once the round's entities are there
benchmark_update ==
    /\ mainpc = "caller"
    /\ systems # <<>>
    /\ bench.i < MaxRounds
    /\ entity_counter = (bench.i + 1) * bench.entities
    /\ systems_controller
    /\ systems_controller' = take(systems_controller)
    /\ mainpc' = "tick"
    /\ task' = [i \in 1 .. Len(systems) |-> NewTask]
    /\ lock' = 0
    /\ poisoned' = FALSE
    /\ last' = [op |-> "update", panic |-> Pending]
    /\ serial' = Tick(storage, entity_counter, FALSE)
    /\ UNCHANGED <<storage, entity_counter, systems, handles, given, bench>>

\* World::update returns to benchmark, and benchmark to the loop of main,
\* which goes on to its next round
benchmark_return ==
    /\ mainpc = "tick"
    /\ Unspawned = {}
    /\ Unjoined = {}
    /\ systems_controller' = TRUE
    /\ mainpc' = "caller"
    /\ task' = <<>>
    /\ lock' = 0
    /\ poisoned' = FALSE
    /\ last' = [op |-> "update", panic |-> NoPanic]
    /\ serial' = NoTick
    /\ bench' = [bench EXCEPT !.i = @ + 1]
    /\ UNCHANGED <<storage, entity_counter, systems, handles, given>>

\* world.remove_system::<SystemSomeRandomSystem>(), once the loop of main is
\* over (main.rs 87)
main_remove_system ==
    /\ mainpc = "caller"
    /\ bench.i = MaxRounds
    /\ last = [op |-> "update", panic |-> NoPanic]
    /\ IF ~systems_controller
       THEN /\ last' = [op |-> "remove_system", S |-> SystemSomeRandomSystem,
                        panic |-> UnwrapNone]
            /\ mainpc' = "panicked"
            /\ UNCHANGED systems
       ELSE LET r == controller_remove_system(systems, SystemSomeRandomSystem) IN
            /\ systems' = r.sys
            /\ last' = [op |-> "remove_system", S |-> SystemSomeRandomSystem,
                        panic |-> r.panic]
            /\ mainpc' = IF r.panic # NoPanic THEN "panicked" ELSE mainpc
    /\ UNCHANGED <<storage, entity_counter, systems_controller, task, lock,
                   poisoned, handles, given, serial, bench>>

NextBenchmark ==
    \/ main_init_storage
    \/ main_add_system
    \/ benchmark_create
    \/ benchmark_update
    \/ spawn
    \/ task_lock
    \/ system_step
    \/ task_finish
    \/ join
    \/ benchmark_return
    \/ main_remove_system

SpecBenchmark == InitBenchmark /\ [][NextBenchmark]_vars

----------------------------------------------------------------------------
(* Properties *)

Range(seq) == {seq[k] : k \in 1 .. Len(seq)}

\* C1: column lockstep.  After every operation, a tick's system steps
\* included, every registered column has exactly entity_counter slots.
ColumnLockstep ==
    \A i \in 1 .. Len(storage) : Len(storage[i].components) = entity_counter

\* A system created an entity inside a tick, with two columns registered
ColumnLockstepWitness ==
    /\ mainpc = "tick"
    /\ last.op \in {"create_entity", "create_entity_with_components"}
    /\ Len(storage) = 2
    /\ entity_counter >= 2

\* The handles returned so far are 0, 1, 2, ... in call order, and the
\* counter is their number
HandlesAscending ==
    /\ \A k \in 1 .. Len(handles) : handles[k] = k - 1
    /\ get_entity_count(entity_counter) = Len(handles)
    /\ last.op \in {"create_entity", "create_entity_with_components"}
           => last.out = Len(handles) - 1

\* C2: entity handles.  The k-th entity creation returns k-1, whatever else
\* is called in between; entity_counter is the number of entities created so
\* far, and it never decreases.
EntityHandles ==
    /\ []HandlesAscending
    /\ [][entity_counter' >= entity_counter]_vars

\* The second entity was just created, after columns and values came in
EntityHandlesWitness ==
    /\ last.op = "create_entity"
    /\ last.out = 1
    /\ Len(storage) >= 1
    /\ given # {}

\* C3: attach/read round trip.  After add_component(e, v) or
\* set_component(e, v) returns, get_component::<C>(e) yields Some(v), lazily
\* created column or not, previous value or not; add_component never fails
\* on a valid entity.
AttachReadRoundTrip ==
    /\ (last.op \in {"add_component", "set_component"} /\ last.panic = NoPanic)
           => world_get_component(storage, last.T, last.entity)
                  = [panic |-> NoPanic, out |-> Some(last.component)]
    /\ (last.op = "add_component" /\ last.entity < entity_counter)
           => last.panic = NoPanic

\* add_component has just replaced a different value of the same type
AttachReadRoundTripWitness ==
    /\ last.op = "add_component"
    /\ last.panic = NoPanic
    /\ last.old # None
    /\ last.old # Some(last.component)
    /\ world_get_component(storage, last.T, last.entity).out = Some(last.component)

\* A step of get_component, get_component_mut or set_component, against the
\* columns and the attachments before it
AbsentOrUnregisteredStep ==
    last'.op \in {"get_component", "get_component_mut", "set_component"} =>
        /\ last'.panic = StorageMissing
               <=> ~ \E i \in 1 .. Len(storage) : storage[i].type_id = last'.T
        /\ ( /\ last'.op # "set_component"
             /\ \E i \in 1 .. Len(storage) : storage[i].type_id = last'.T
             /\ last'.entity < entity_counter
             /\ <<last'.T, last'.entity>> \notin given )
               => (last'.panic = NoPanic /\ last'.out = None)

\* C4: absent versus unregistered.  get_component, get_component_mut and
\* set_component fail with the missing-storage panic exactly when no column
\* for the type is registered; a read of a valid entity that was never given
\* a value of a registered type returns None, with no panic.
AbsentVersusUnregistered == [][AbsentOrUnregisteredStep]_vars

\* A read returned None for an entity without a value, in a column that
\* holds a value for another entity
AbsentVersusUnregisteredWitness ==
    /\ last.op \in {"get_component", "get_component_mut"}
    /\ last.panic = NoPanic
    /\ last.out = None
    /\ last.entity < entity_counter
    /\ \E e \in 0 .. entity_counter - 1 : <<last.T, e>> \in given

DistinctColumns ==
    \A i, j \in 1 .. Len(storage) :
        i # j => storage[i].type_id # storage[j].type_id

\* A step of init_storage, against the columns before it
InitStorageStep ==
    last'.op = "init_storage" =>
        IF \E i \in 1 .. Len(storage) : storage[i].type_id = last'.T
        THEN last'.panic = StorageExists /\ storage' = storage
        ELSE /\ last'.panic = NoPanic
             /\ Len(storage') = Len(storage) + 1
             /\ SubSeq(storage', 1, Len(storage)) = storage
             /\ storage'[Len(storage')].type_id = last'.T

\* C5: one column per type.  init_storage::<C>() panics with "Storage already
\* exists" exactly when a column for C is registered, by init_storage or by
\* add_component, and else appends one column; no two columns ever carry the
\* same type key.
OneColumnPerType == []DistinctColumns /\ [][InitStorageStep]_vars

\* init_storage was refused for a type that has a column holding a value
OneColumnPerTypeWitness ==
    /\ last.op = "init_storage"
    /\ last.panic = StorageExists
    /\ Len(storage) = 2
    /\ \E e \in 0 .. entity_counter - 1 : <<last.T, e>> \in given

DistinctSystems ==
    \A i, j \in 1 .. Len(systems) : i # j => systems[i] # systems[j]

\* A step of add_system, against the registry before it
AddSystemStep ==
    (last'.op = "add_system" /\ systems_controller) =>
        IF \E i \in 1 .. Len(systems) : systems[i] = last'.S
        THEN last'.panic = SystemExists /\ systems' = systems
        ELSE last'.panic = NoPanic /\ systems' = Append(systems, last'.S)

\* A step of remove_system, against the registry before it
RemoveSystemStep ==
    (last'.op = "remove_system" /\ systems_controller) =>
        IF \E i \in 1 .. Len(systems) : systems[i] = last'.S
        THEN /\ last'.panic = NoPanic
             /\ \E k \in 1 .. Len(systems) :
                    /\ systems[k] = last'.S
                    /\ systems' = SubSeq(systems, 1, k - 1)
                                    \o SubSeq(systems, k + 1, Len(systems))
        ELSE last'.panic = SystemMissing /\ systems' = systems

\* C6: system registry identity.  With the controller in the World,
\* add_system(S) panics with "System already exists" when S's type key is
\* registered and else appends S; remove_system::<S>() panics with "System
\* does not exist" when it is not and else removes the one entry of type S,
\* the others keeping their order; no two entries share a type key.
SystemRegistryIdentity ==
    /\ []DistinctSystems
    /\ [][AddSystemStep /\ RemoveSystemStep]_vars

\* A system was removed from a registry of four, three stay in their order
SystemRegistryIdentityWitness ==
    /\ last.op = "remove_system"
    /\ last.panic = NoPanic
    /\ last.S = SystemThird
    /\ systems = <<SystemCaller, SystemFourth, SystemSomeRandomSystem>>

\* The four failures a caller can trigger
CallerFailures == {StorageExists, StorageMissing, SystemExists, SystemMissing}

\* C7 as claimed: such a failure is reported to the caller as a recoverable
\* result, so the thread that made the call goes on with a usable World.
CallerFailuresRecoverable ==
    last.panic \in CallerFailures =>
        /\ mainpc # "panicked"
        /\ \A i \in DOMAIN task : task[i].pc # "panicked"

\* A step that raises one of them, against the World before it
CallerFailureStep ==
    last'.panic \in CallerFailures =>
        /\ last'.op \in {"init_storage", "get_component", "get_component_mut",
                         "set_component", "add_system", "remove_system"}
        /\ storage' = storage
        /\ entity_counter' = entity_counter
        /\ systems' = systems
        /\ systems_controller' = systems_controller
        /\ \/ mainpc = "caller" /\ mainpc' = "panicked"
           \/ /\ lock # 0
              /\ task[lock].pc = "body"
              /\ task'[lock].pc = "panicked"
              /\ poisoned'

\* C7, amended: each of the four failures is a panic on the calling thread
\* (the call does not return), raised before anything is written: the
\* columns, the entity counter and the registry are what they were before
\* the call.
CallerFailuresPanic == [][CallerFailureStep]_vars

\* A read of an unregistered type ended the caller of a populated World
CallerFailuresPanicWitness ==
    /\ last.panic = StorageMissing
    /\ mainpc = "panicked"
    /\ Len(storage) = 1
    /\ entity_counter >= 1
    /\ Len(systems) >= 1

\* The entities below entity_counter that has_component reports for every key
Matching(keys) ==
    {e \in 0 .. entity_counter - 1 :
        \A k \in 1 .. Len(keys) : has_component(storage, e, keys[k]).out}

Ascending(seq) == \A i, j \in 1 .. Len(seq) : i < j => seq[i] < seq[j]

\* Query::get of a query with these keys, on the World as it is
Resolve(keys) ==
    Query_get([Query_new EXCEPT !.components = keys], storage, entity_counter)

\* The query that has just returned (query_get runs every key list up to
\* MaxKeys wherever a call can be made), also against every reordering of
\* its keys
QueryExact ==
    last.op = "query_get" =>
        /\ last.panic = NoPanic
        /\ Ascending(last.out)
        /\ Range(last.out) = Matching(last.components)
        /\ \A keys \in KeyLists :
              Range(keys) = Range(last.components) => Resolve(keys).out = last.out
        /\ last.components = <<>>
              => last.out = [k \in 1 .. entity_counter |-> k - 1]

QueryStep == last'.op = "query_get" => world_vars' = world_vars

\* C8: query result.  Query::get returns exactly the entities below
\* entity_counter that has_component reports for every required key, each
\* once, ascending; the order of the keys does not matter, a query without
\* keys returns every entity, and the World is left as it was.
QueryResult == []QueryExact /\ [][QueryStep]_vars

\* A query on both types returned some of the entities, not all
QueryResultWitness ==
    /\ last.op = "query_get"
    /\ last.components = <<SomeRandomComponent, Position>>
    /\ last.out # <<>>
    /\ Len(last.out) < entity_counter
    /\ Matching(<<Position>>) # Matching(<<SomeRandomComponent>>)

\* C9: monotonic narrowing.  On one World, a query whose keys include those
\* of another returns a subset of the other's entities (the query that has
\* just returned, against every key list that includes its keys).
MonotonicNarrowing ==
    last.op = "query_get" =>
        \A keys \in KeyLists :
            Range(last.components) \subseteq Range(keys)
                => Range(Resolve(keys).out) \subseteq Range(last.out)

\* Adding a key drops an entity and keeps another
MonotonicNarrowingWitness ==
    /\ last.op = "query_get"
    /\ last.components = <<Position>>
    /\ Resolve(<<Position, SomeRandomComponent>>).out # <<>>
    /\ Range(Resolve(<<Position, SomeRandomComponent>>).out) # Range(last.out)
    /\ Range(Resolve(<<Position, SomeRandomComponent>>).out) \subseteq Range(last.out)

\* The tasks past world.lock() are at most one, the holder of the Mutex
OneHolder ==
    /\ Cardinality({i \in DOMAIN task : task[i].pc = "body"}) <= 1
    /\ \A i \in DOMAIN task : task[i].pc = "body" <=> lock = i

\* In a tick the World is written only by a step of the holder
WriteUnderLock ==
    (mainpc = "tick" /\ <<storage, entity_counter>>' # <<storage, entity_counter>>)
        => (lock # 0 /\ task[lock].pc = "body")

\* C10: mutual exclusion within a tick.  In every interleaving of the tasks
\* of one update, at most one system task holds the World lock, so at most
\* one update body reads or writes the World at any instant.
MutualExclusion == []OneHolder /\ [][WriteUnderLock]_vars

\* One task holds the lock in the middle of its loop while the other one,
\* spawned, waits for it
MutualExclusionWitness ==
    /\ mainpc = "tick"
    /\ Len(systems) = 2
    /\ \E i, j \in DOMAIN task :
          /\ task[i].pc = "body"
          /\ task[i].todo # <<>>
          /\ Len(task[i].todo) < entity_counter
          /\ task[j].pc = "started"

\* The World as it is
TheWorld == WorldOf(storage, entity_counter)

\* While a task is inside its update body, no other task is inside its own
\* or has left it half way by a panic: the others have not locked yet or
\* have returned.
NoPartialObservation ==
    \A i \in DOMAIN task :
        task[i].pc = "body" =>
            \A j \in DOMAIN task \ {i} :
                task[j].pc \in {"unspawned", "started", "done", "joined"}

\* Whenever the lock is free the World is what the systems that have returned
\* leave when run one at a time, in the order they took the lock, from the
\* World the tick started with; while some_random_system holds the lock, the
\* rest of its loop leads to what its run on its own leads to.
SerialWorld ==
    (mainpc = "tick" /\ ~poisoned) =>
        IF lock # 0 /\ systems[lock] = SystemSomeRandomSystem
        THEN some_random_system_loop(storage, task[lock].todo).st
                 = some_random_system(Serial.st, Serial.n).st
             /\ entity_counter = Serial.n
        ELSE TheWorld = Serial

\* C11: no partial observation.  A system that holds the World lock sees the
\* World the tick started with or the World left by systems that have each
\* returned (never one another system is half way through), so the World
\* after the tick is the registered systems run one at a time in some order.
SerializableTick == NoPartialObservation /\ SerialWorld

\* some_random_system has returned after adding to two components, and the
\* other system, holding the lock after it, has overwritten one of the two
SerializableTickWitness ==
    /\ mainpc = "tick"
    /\ Len(systems) = 2
    /\ last.op = "set_component"
    /\ last.panic = NoPanic
    /\ last.old = Some(Box(SomeRandomComponent, [some_value |-> MaxAdded]))
    /\ last.old # Some(last.component)
    /\ \E j \in DOMAIN task :
          systems[j] = SystemSomeRandomSystem /\ task[j].pc = "done"
    /\ \E e \in 0 .. entity_counter - 1 :
          /\ e # last.entity
          /\ Slot(storage, SomeRandomComponent, e) = last.old

\* No scoped thread is waiting for the lock or inside an update body while
\* the caller is outside World::update, returned or panicked
NoStrayTask ==
    mainpc \in {"caller", "panicked"} =>
        \A i \in DOMAIN task : task[i].pc \notin {"started", "body"}

\* World::update returns: every registered system has its task, and every
\* task has returned from the system's update and has been joined
BarrierStep ==
    (mainpc = "tick" /\ mainpc' = "caller") =>
        /\ DOMAIN task = DOMAIN systems
        /\ \A i \in DOMAIN task : task[i].pc = "joined"

\* How far a scoped thread has come
Stage(pc) ==
    CASE pc = "unspawned" -> 0
      [] pc = "started" -> 1
      [] pc = "body" -> 2
      [] pc \in {"done", "panicked"} -> 3
      [] pc = "joined" -> 4

\* Within a tick a thread only moves forward, one stage at a time: a system's
\* update is entered once and is not entered again after it has ended
OnceStep ==
    (mainpc = "tick" /\ mainpc' = "tick") =>
        \A i \in DOMAIN task :
            /\ Stage(task'[i].pc) >= Stage(task[i].pc)
            /\ Stage(task'[i].pc) <= Stage(task[i].pc) + 1
                  \/ (task[i].pc = "started" /\ task'[i].pc = "panicked")

\* C12: fork/join barrier.  One World::update runs the update of every
\* registered system exactly once and returns to the caller only when every
\* one of those tasks has ended; no task is running when the caller has the
\* World back, so none is left when the next tick starts.
ForkJoinBarrier == []NoStrayTask /\ [][BarrierStep /\ OnceStep]_vars

\* A tick of two systems has returned, some_random_system having added to a
\* component in it
ForkJoinBarrierWitness ==
    /\ mainpc = "caller"
    /\ last = [op |-> "update", panic |-> NoPanic]
    /\ Len(systems) = 2
    /\ \E e \in 0 .. entity_counter - 1 :
          Slot(storage, SomeRandomComponent, e)
              = Some(Box(SomeRandomComponent, [some_value |-> MaxAdded]))

\* Some task of the tick has panicked
FailedTick == \E i \in DOMAIN task : task[i].pc = "panicked"

\* Once a task has panicked, World::update does not return to the caller
AbortStep == FailedTick => (mainpc' # "caller" /\ FailedTick')

\* C13: task failure aborts the tick.  Once the update of some system has
\* panicked in a tick, whichever its place in the registry and whichever
\* the order of the lock, World::update never returns normally: the join
\* panics in turn and the caller's thread ends in the tick.
TaskFailureAborts == [][AbortStep]_vars

\* The second system of the registry panicked after the first one had
\* returned and had been joined, and the caller's thread has ended
TaskFailureAbortsWitness ==
    /\ mainpc = "panicked"
    /\ last = [op |-> "update", panic |-> JoinError]
    /\ Len(task) = 2
    /\ task[1].pc = "joined"
    /\ task[2].pc = "panicked"

\* The ticks main's loop has run since entity e was created, the tick of its
\* own round included
TicksSince(e) == bench.i - (e \div bench.entities)

\* C14: accumulation scenario.  With both columns registered and
\* some_random_system the one system, k entities created with Position(1,1)
\* and a counter before each tick: between the ticks, a tick that has
\* returned leaves k entities per round done, and each entity has its
\* Position and a counter that has grown by 2 for every tick since the
\* entity's creation, so a counter created as 0 is 2 after the first tick
\* and 2 times the number of those ticks after any.
AccumulationScenario ==
    mainpc = "caller" =>
        /\ last = [op |-> "update", panic |-> NoPanic]
               => get_entity_count(entity_counter) = bench.entities * bench.i
        /\ \A e \in 0 .. entity_counter - 1 :
               /\ Slot(storage, Position, e) = Some(Box(Position, [x |-> 1, y |-> 1]))
               /\ Slot(storage, SomeRandomComponent, e)
                      = Some(Box(SomeRandomComponent,
                                 [some_value |-> bench.some_value
                                                    + 2 * TicksSince(e)]))

\* Two rounds of two entities with counter 0: the first two are at 4, the
\* last two at 2
AccumulationScenarioWitness ==
    /\ mainpc = "caller"
    /\ last = [op |-> "update", panic |-> NoPanic]
    /\ bench = [i |-> 2, entities |-> 2, some_value |-> 0]
    /\ entity_counter = 4
    /\ Slot(storage, SomeRandomComponent, 0)
           = Some(Box(SomeRandomComponent, [some_value |-> 4]))
    /\ Slot(storage, SomeRandomComponent, 3)
           = Some(Box(SomeRandomComponent, [some_value |-> 2]))

\* Some key of the list is a type with no registered column
Unregistered(keys) ==
    \E k \in 1 .. Len(keys) : ~check_storage_exists(storage, keys[k])

\* C15 as claimed: a query with a key that has no column fails with the
\* missing-storage panic, as get_component and set_component do (here on a
\* World that has entities to scan).
UnregisteredQueryFails ==
    (last.op = "query_get" /\ Unregistered(last.components)
                           /\ entity_counter >= 1)
        => last.panic = StorageMissing

\* C15, amended: Query::get with a key that has no registered column does
\* not fail; no entity has that type, so it returns the empty list.
UnregisteredQueryEmpty ==
    (last.op = "query_get" /\ Unregistered(last.components))
        => (last.panic = NoPanic /\ last.out = <<>>)

\* A query on both types came back empty with no column for the second,
\* while an entity holds a value of the first
UnregisteredQueryEmptyWitness ==
    /\ last.op = "query_get"
    /\ last.components = <<Position, SomeRandomComponent>>
    /\ ~check_storage_exists(storage, SomeRandomComponent)
    /\ Matching(<<Position>>) # {}
    /\ entity_counter >= 2
    /\ last.out = <<>>

\* Every present slot holds a value of the type the column is declared for
Homogeneous ==
    \A i \in 1 .. Len(storage) : \A k \in 1 .. Len(storage[i].components) :
        LET slot == storage[i].components[k] IN
        slot # None => slot[1].tid = storage[i].type_id

\* has_component(e, C) answers whether the column for C has a present slot at e
HasIffPresent ==
    \A e \in 0 .. entity_counter - 1 : \A C \in ComponentTypes :
        has_component(storage, e, C)
            = [panic |-> NoPanic, out |-> Slot(storage, C, e) # None]

\* C16: column type homogeneity.  In every reachable state each present
\* slot of a column holds a value whose type key is the column's; no call
\* ends in the "Component type mismatch" panic of get and get_mut; and
\* has_component(e, C) is true exactly when the column for C has a present
\* slot at e.
ColumnHomogeneity ==
    /\ Homogeneous
    /\ last.panic # TypeMismatch
    /\ HasIffPresent

\* A read returned a value while both columns hold values, one of them for
\* some entities only
ColumnHomogeneityWitness ==
    /\ last.op \in {"get_component", "get_component_mut"}
    /\ last.panic = NoPanic
    /\ last.out # None
    /\ Len(storage) = 2
    /\ Matching(<<Position>>) # {}
    /\ Matching(<<SomeRandomComponent>>) # {}
    /\ Matching(<<Position>>) # Matching(<<SomeRandomComponent>>)

\* The slots of the entities below n are the same in st2 as in st1, for
\* every component type
SameSlots(st1, st2, n) ==
    \A e \in 0 .. n - 1 : \A C \in ComponentTypes :
        Slot(st2, C, e) = Slot(st1, C, e)

\* A step of create_entity_with_components, against the World before it
CreateWithComponentsStep ==
    last'.op = "create_entity_with_components" =>
        /\ last'.panic = NoPanic
        /\ entity_counter' = entity_counter + 1
        /\ last'.out = entity_counter
        /\ SameSlots(storage, storage', entity_counter)
        /\ IF last'.components = <<>>
           THEN /\ storage' = world_create_entity(storage, entity_counter).st
                /\ \A C \in ComponentTypes : Slot(storage', C, last'.out) = None
           ELSE /\ Slot(storage', last'.T, last'.out)
                       = Some(last'.components[Len(last'.components)])
                /\ \A C \in ComponentTypes \ {last'.T} :
                       Slot(storage', C, last'.out) = None
                /\ \A i \in 1 .. Len(storage') :
                       Len(storage'[i].components) = entity_counter'

\* C17: create_entity_with_components(values) creates one entity, whose
\* handle is the count before the call; the values are attached to it in
\* list order, so that it holds the last one; with an empty list the call
\* does what create_entity does; the slots of the other entities stay as
\* they were.
CreateWithComponents == [][CreateWithComponentsStep]_vars

\* The second entity was created with two different values and holds the
\* second one; the first entity still holds the value it was given
CreateWithComponentsWitness ==
    /\ last.op = "create_entity_with_components"
    /\ last.out = 1
    /\ Len(last.components) = 2
    /\ last.components[1] # last.components[2]
    /\ Slot(storage, last.T, 1) = Some(last.components[2])
    /\ Slot(storage, last.T, 0) = Some(last.components[1])

\* A step of add_component on a valid entity, against the World before it
AddComponentFrameStep ==
    (last'.op = "add_component" /\ last'.entity < entity_counter) =>
        /\ last'.panic = NoPanic
        /\ entity_counter' = entity_counter
        /\ systems' = systems
        /\ systems_controller' = systems_controller
        /\ Slot(storage', last'.T, last'.entity) = Some(last'.component)
        /\ \A e \in 0 .. entity_counter - 1 : \A C \in ComponentTypes :
               (C # last'.T \/ e # last'.entity)
                   => Slot(storage', C, e) = Slot(storage, C, e)
        /\ IF check_storage_exists(storage, last'.T)
           THEN /\ Len(storage') = Len(storage)
                /\ \A i \in 1 .. Len(storage) :
                       /\ storage'[i].type_id = storage[i].type_id
                       /\ storage[i].type_id # last'.T => storage'[i] = storage[i]
           ELSE /\ Len(storage') = Len(storage) + 1
                /\ SubSeq(storage', 1, Len(storage)) = storage
                /\ storage'[Len(storage')].type_id = last'.T
                /\ Len(storage'[Len(storage')].components) = entity_counter
                /\ \A e \in 0 .. entity_counter - 1 :
                       e # last'.entity
                           => storage'[Len(storage')].components[e + 1] = None

\* C18: frame of add_component.  add_component(e, v) on a valid entity
\* changes the slot of e in the column for v's type and nothing else; a
\* column that did not exist is appended with one slot per entity, absent
\* for every entity but e; the other columns, the other slots, the entity
\* counter and the system registry stay as they were.
AddComponentFrame == [][AddComponentFrameStep]_vars

\* add_component created the second column for the second of two entities,
\* the first column holding a value
AddComponentFrameWitness ==
    /\ last.op = "add_component"
    /\ last.panic = NoPanic
    /\ last.lazy
    /\ last.entity = 1
    /\ Len(storage) = 2
    /\ \E C \in ComponentTypes \ {last.T} : Slot(storage, C, 0) # None
    /\ Slot(storage, last.T, 0) = None
    /\ Len(systems) >= 1

\* An attachment to an entity that does not exist
OutOfRangeAttachment ==
    /\ last'.op \in {"add_component", "set_component"}
    /\ last'.entity >= entity_counter

\* C20 as claimed: the call fails with the out-of-range failure, and the
\* columns and the entity counter are then what they were before it, also
\* when the type had no column.
OutOfRangeUnchanged ==
    [][OutOfRangeAttachment =>
           /\ last'.panic = IndexOutOfBounds
           /\ storage' = storage
           /\ entity_counter' = entity_counter]_vars

\* A step that attaches to an entity that does not exist, against the World
\* before it
OutOfRangeStep ==
    OutOfRangeAttachment =>
        /\ entity_counter' = entity_counter
        /\ \A e \in 0 .. entity_counter - 1 : \A C \in ComponentTypes :
               Slot(storage', C, e) = Slot(storage, C, e)
        /\ IF check_storage_exists(storage, last'.T)
           THEN last'.panic = IndexOutOfBounds /\ storage' = storage
           ELSE IF last'.op = "set_component"
           THEN last'.panic = StorageMissing /\ storage' = storage
           ELSE /\ last'.panic = IndexOutOfBounds
                /\ storage' = Append(storage,
                       [components |-> [k \in 1 .. entity_counter |-> None],
                        type_id |-> last'.T])

\* C20, amended: add_component(e, v) or set_component(e, v) with
\* e >= entity_counter fails and attaches nothing, and the entity counter and
\* the contents of the existing columns are what they were.  With a column
\* for v's type the failure is the out-of-range one and the World is
\* unchanged.  With none, set_component fails with the missing-storage panic
\* and changes nothing, while add_component has registered the column, with
\* one absent slot per entity, before it fails with the out-of-range one.
OutOfRangeAttachmentFails == [][OutOfRangeStep]_vars

\* add_component failed on an entity that does not exist and left a new,
\* empty column beside one that holds a value
OutOfRangeAttachmentFailsWitness ==
    /\ last.op = "add_component"
    /\ last.panic = IndexOutOfBounds
    /\ last.lazy
    /\ entity_counter >= 1
    /\ Len(storage) = 2
    /\ storage[2].type_id = last.T
    /\ Matching(<<last.T>>) = {}
    /\ Matching(<<storage[1].type_id>>) # {}

\* A step of the tick: of SystemController::update or of one of its threads
TickStep ==
    \/ spawn
    \/ task_lock
    \/ system_step
    \/ task_finish
    \/ join
    \/ update_return
    \/ unwind

\* The caller sets up a World (entities, values, systems) and ticks
NextTick ==
    \/ resume
    \/ create_entity
    \/ add_component
    \/ add_system
    \/ update
    \/ TickStep

\* The threads are scheduled fairly: a thread that can take its next step
\* takes it in the end, and a system's update body comes to its end
SpecTick ==
    /\ Init
    /\ [][NextTick]_vars
    /\ WF_vars(spawn)
    /\ WF_vars(task_lock)
    /\ WF_vars(system_step)
    /\ WF_vars(task_finish)
    /\ WF_vars(join)
    /\ WF_vars(update_return)
    /\ WF_vars(unwind)

\* While the tick is under way some thread of it can take a step
NoTickDeadlock == mainpc \in {"tick", "unwinding"} => ENABLED TickStep

\* Thread i waits for the World lock
Waiting(i) == i \in DOMAIN task /\ task[i].pc = "started"

\* Thread i holds the guard and is in its system's update body
Holding(i) == i \in DOMAIN task /\ task[i].pc = "body" /\ lock = i

\* Thread i was refused the lock: a system of the tick panicked while it held
\* the guard, so its body did not come to its end
Refused(i) == i \in DOMAIN task /\ task[i].pc = "panicked" /\ poisoned

\* C19: tick termination.  Under fair scheduling, with systems that take
\* the World lock once at a time and whose bodies come to their end, the
\* tick never deadlocks, every task that waits for the lock gets it, and
\* every tick returns to the caller; the one way out is a system whose body
\* does not come to its end because it panics.
TickTermination ==
    /\ []NoTickDeadlock
    /\ \A i \in 1 .. Cardinality(SystemTypes) :
           Waiting(i) ~> (Holding(i) \/ Refused(i))
    /\ (mainpc = "tick") ~> (mainpc = "caller" \/ FailedTick)

\* Two tasks wait for the lock at once, with entities for some_random_system
\* to work on
TickTerminationWitness ==
    /\ mainpc = "tick"
    /\ Len(task) = 2
    /\ Waiting(1)
    /\ Waiting(2)
    /\ Matching(<<Position, SomeRandomComponent>>) # {}

\* A tick is in progress: World::update has been entered and has not
\* returned; a tick that a panic ends never returns.
TickInProgress ==
    \/ mainpc \in {"tick", "unwinding"}
    \/ (mainpc = "panicked" /\ task # <<>>)

\* The World holds its scheduler exactly when no tick is in progress
SchedulerIffIdle == systems_controller <=> ~TickInProgress

\* The calls that need the scheduler in the World
SchedulerOps == {"add_system", "remove_system", "update"}

\* This step is a call made by a system through the shared World handle
SystemCalls ==
    \E a \in DOMAIN task :
        a \in DOMAIN task' /\ task'[a].calls = task[a].calls + 1

\* A system's add_system, remove_system or nested update fails on the absent
\* scheduler, and leaves the registry and the absence as they were
NestedSchedulerStep ==
    (SystemCalls /\ last'.op \in SchedulerOps) =>
        /\ last'.panic = UnwrapNone
        /\ systems' = systems
        /\ ~systems_controller'

\* From the entry of World::update to its return the registry stays as it is:
\* the tick that returns puts back the systems it took, in their order
RestoreStep ==
    /\ (TickInProgress \/ TickInProgress') => systems' = systems
    /\ (mainpc = "tick" /\ mainpc' = "caller") => systems_controller'

\* C21: scheduler take-then-restore.  The World holds its scheduler exactly
\* when no tick is in progress; during a tick a system's add_system,
\* remove_system or nested update through the shared handle fails on the
\* absent scheduler; a tick that returns normally leaves the scheduler in the
\* World with the registered systems, in the order, it had before the tick.
TakeThenRestore ==
    []SchedulerIffIdle /\ [][NestedSchedulerStep /\ RestoreStep]_vars

\* In a tick of two systems, one of them has called a scheduler operation
\* through the handle and the call has failed on the absent scheduler
TakeThenRestoreWitness ==
    /\ mainpc = "tick"
    /\ Len(systems) = 2
    /\ ~systems_controller
    /\ last.op \in SchedulerOps
    /\ last.panic = UnwrapNone

====
